---- MODULE Spec2Model ----
(***************************************************************************)
(* The signaling/session relay of src/server/websocket-server.js           *)
(* (class OptimizedWebSocketServer) as a state machine.                    *)
(*                                                                         *)
(* Every event handler of the server runs to completion on the single      *)
(* JavaScript thread, so every handler is one action.  A connection is     *)
(* identified by the clientId the server generates for it; the socket      *)
(* object (ws) of a connection is identified by the same number, so a      *)
(* stored "ws" reference is the id of the connection that owns the socket. *)
(* Client ids and viewer ids are both keys that the code looks up in       *)
(* this.clients (handleCursor does so with viewer ids), so both are        *)
(* integers here: client ids are 1..MaxConns, viewer ids are ViewerIds.    *)
(***************************************************************************)
EXTENDS Integers, Sequences, FiniteSets, TLC

\* ------------------------------------------------------------------ bounds
MaxConns == 3          \* connections accepted in one run
MaxRoleMsgs == 3       \* host-ready and viewer-join frames handled in one run
MaxTicks == 4          \* health-check ticks in one run
HealthConns == 2       \* connections accepted in a run with health checks
HealthRoleMsgs == 2    \* role frames handled in a run with health checks
MaxBytes == 2          \* bytes a session accumulates from stats frames
ForwardConns == 2      \* connections accepted in a run with forwarded frames
ForwardRoleMsgs == 2   \* role frames handled in a run with forwarded frames
OrderConns == 2        \* connections accepted in a run with queued frames
MaxArrivals == 4       \* frames that arrive in a run with queued frames
ProbeConns == 2        \* connections accepted in a run of the heartbeat alone
EveryConns == 2        \* connections accepted in a run with every handler
EveryRoleMsgs == 1     \* role frames handled in a run with every handler
MaxSockets == 7        \* sockets one SignalingClient creates in a run

\* ------------------------------------------------------- program constants
PingInterval == 30000  \* setInterval period of the health check (ms)
PongTimeout == 60000   \* a client is stale after this long without a pong (ms)
NormalClosure == 1000  \* the close code of the graceful shutdown
MaxReconnectAttempts == 5  \* SignalingClient.maxReconnectAttempts

\* ------------------------------------------------------------ input domains
SessionIds == {"abc", "zzz"}
ViewerIds == {101, 102}
Payloads == {"d1", "d2"}

NoSession == "null"    \* client.sessionId === null
NoType == "null"       \* client.type === null
NoId == 0              \* undefined viewerId, null clientId

VARIABLES
  clients,           \* this.clients: clientId -> [sessionId, type, viewerId, lastPong]
  readyState,        \* ws.readyState of the socket of every accepted connection
  sessions,          \* this.sessions: sessionId -> session record
  clientToSession,   \* this.clientToSession
  clientToViewerId,  \* this.clientToViewerId
  stats,             \* this.stats: [totalConnections, activeSessions]
  now,               \* Date.now() (ms since the server started)
  nextId,            \* number of client ids generated so far, plus one
  roleMsgs,          \* number of host-ready and viewer-join frames handled so far
  hostReadySent,     \* history: <<clientId, sessionId>> for every host-ready a
                     \* connection still in the registry has sent
  sent,              \* the frames the last handler wrote, in order: <<[to, msg]>>
  last,              \* the last event handled: [op, c, m]
  inbox,             \* per connection: the frames that arrived on its socket, in
                     \* arrival order, and the index of the next "message" event
  wire,              \* per connection: the frames written to its socket, in
                     \* order, each with the connection and arrival it answers
  process,           \* the server process: "running", "closing" once
                     \* this.server.close() was called, "exited"
  signaling          \* the SignalingClient object of one browser page

vars == <<clients, readyState, sessions, clientToSession, clientToViewerId,
          stats, now, nextId, roleMsgs, hostReadySent, sent, last, inbox,
          wire, process, signaling>>

relay == <<clients, sessions, clientToSession, clientToViewerId, stats>>

queue == <<inbox, wire>>

\* The server process and the client library: no handler of the relay
\* touches them.
outside == <<process, signaling>>

idle == <<queue, outside>>

\* Everything the server's handlers read or write.
serverSide == <<relay, readyState, now, nextId, roleMsgs, hostReadySent, sent,
               last>>

\* ------------------------------------------------------------------ helpers
\* Map.set(k, v)
MapSet(f, k, v) == (k :> v) @@ f

\* Map.delete(k)
MapDelete(f, k) == [x \in DOMAIN f \ {k} |-> f[x]]

\* The elements of a finite set of integers in ascending order.
RECURSIVE KeysInOrder(_)
KeysInOrder(S) ==
  IF S = {} THEN <<>>
  ELSE LET m == CHOOSE x \in S : \A y \in S : x <= y
       IN <<m>> \o KeysInOrder(S \ {m})

\* sendToClient(clientId, message) evaluated against registry cl and socket
\* states rs: the frames it writes.
\* A send that does not look at the socket's readyState.
SendToClientUnchecked(cl, rs, clientId, message) ==
  IF clientId \in DOMAIN cl
  THEN <<[to |-> clientId, msg |-> message]>>
  ELSE <<>>

SendToClient(cl, rs, clientId, message) ==
  IF clientId \in DOMAIN cl /\ rs[clientId] = "OPEN"
  THEN <<[to |-> clientId, msg |-> message]>>
  ELSE <<>>

\* An error reply that is never written.
SendErrorSilent(rs, ws, message) == <<>>

\* sendError(ws, message)
SendError(rs, ws, message) ==
  IF rs[ws] = "OPEN"
  THEN <<[to |-> ws, msg |-> [t |-> "error", message |-> message]]>>
  ELSE <<>>

\* A socket lookup that never finds the client.
GetViewerClientIdNone(cl, viewerWs) == NoId

\* getViewerClientId(viewerWs): the registered client that owns the socket.
GetViewerClientId(cl, viewerWs) ==
  IF viewerWs \in DOMAIN cl THEN viewerWs ELSE NoId

\* A session record whose host slot is left empty.
NewSessionNoHost(clientId) ==
  [hostClientId |-> NoId,
   hostWs |-> NoId,
   viewers |-> <<>>,
   createdAt |-> now,
   stats |-> [totalViewers |-> 0, peakViewers |-> 0, dataTransferred |-> 0]]

\* The session record handleHostReady creates.
NewSession(clientId) ==
  [hostClientId |-> clientId,
   hostWs |-> clientId,
   viewers |-> <<>>,
   createdAt |-> now,
   stats |-> [totalViewers |-> 0, peakViewers |-> 0, dataTransferred |-> 0]]

\* A maximum that keeps its first argument.
MaxKeepsFirst(a, b) == a

Max(a, b) == IF a >= b THEN a ELSE b

Event(op, c, m) == [op |-> op, c |-> c, m |-> m]

NoMsg == [t |-> "none"]

\* new SignalingClient(url, ...): the constructor has called connect(), the
\* first socket is connecting. closeCalled, sockets and closes are history:
\* whether the application has called close(), the number of sockets created
\* so far, and the number of "close" events since the last "open" event.
NewSignalingClient ==
  [socket |-> "CONNECTING",
   isConnected |-> FALSE,
   reconnectAttempts |-> 0,
   timers |-> 0,
   closeCalled |-> FALSE,
   sockets |-> 1,
   closes |-> 0]

\* --------------------------------------------------------------------- Init
Init ==
  /\ clients = <<>>
  /\ readyState = <<>>
  /\ sessions = <<>>
  /\ clientToSession = <<>>
  /\ clientToViewerId = <<>>
  /\ stats = [totalConnections |-> 0, activeSessions |-> 0]
  /\ now = 0
  /\ nextId = 1
  /\ roleMsgs = 0
  /\ hostReadySent = {}
  /\ sent = <<>>
  /\ last = Event("start", NoId, NoMsg)
  /\ inbox = [c \in 1..MaxConns |-> [frames |-> <<>>, next |-> 1]]
  /\ wire = [c \in 1..MaxConns |-> <<>>]
  /\ process = "running"
  /\ signaling = NewSignalingClient

\* ------------------------------------------------------------------ actions
\* wss.on("connection"): a transport is accepted and registered.
Connection ==
  /\ nextId <= MaxConns
  /\ clients' = MapSet(clients, nextId,
        [sessionId |-> NoSession, type |-> NoType, viewerId |-> NoId,
         lastPong |-> now])
  /\ readyState' = MapSet(readyState, nextId, "OPEN")
  /\ stats' = [stats EXCEPT !.totalConnections = @ + 1]
  /\ nextId' = nextId + 1
  /\ sent' = <<>>
  /\ last' = Event("connection", nextId, NoMsg)
  /\ UNCHANGED <<sessions, clientToSession, clientToViewerId, now, roleMsgs,
                 hostReadySent>>

\* A frame arrives only on an open socket whose handlers are installed;
\* handleMessage returns at once when the sender is not registered.
Receives(clientId) ==
  /\ clientId \in DOMAIN clients
  /\ readyState[clientId] = "OPEN"

\* A re-registration that starts the session record afresh.
ReRegisterHostFresh(session, clientId) == NewSession(clientId)

\* The else branch of handleHostReady: the host of a live session is replaced.
ReRegisterHost(session, clientId) ==
  [session EXCEPT !.hostClientId = clientId, !.hostWs = clientId]

\* handleHostReady(clientId, {t: "host-ready", s: sessionId})
HandleHostReady(clientId, sessionId) ==
  /\ Receives(clientId)
  /\ roleMsgs < MaxRoleMsgs
  /\ sessions' =
       IF sessionId \notin DOMAIN sessions
       THEN MapSet(sessions, sessionId, NewSession(clientId))
       ELSE [sessions EXCEPT ![sessionId] = ReRegisterHost(@, clientId)]
  /\ stats' =
       IF sessionId \notin DOMAIN sessions
       THEN [stats EXCEPT !.activeSessions = @ + 1]
       ELSE stats
  /\ clients' = [clients EXCEPT ![clientId].sessionId = sessionId,
                                ![clientId].type = "host"]
  /\ clientToSession' = MapSet(clientToSession, clientId, sessionId)
  /\ roleMsgs' = roleMsgs + 1
  /\ hostReadySent' = hostReadySent \cup {<<clientId, sessionId>>}
  /\ sent' = SendToClient(clients', readyState, clientId,
                          [t |-> "host-ready-ack", s |-> sessionId])
  /\ last' = Event("host-ready", clientId, [t |-> "host-ready", s |-> sessionId])
  /\ UNCHANGED <<readyState, clientToViewerId, now, nextId>>

\* session.viewers.set(viewerId, client.ws)
AddViewer(viewers, viewerId, ws) == MapSet(viewers, viewerId, ws)

\* A viewer-join that records the sender as a viewer of the requested session
\* even when that session is not in the table.
HandleViewerJoinUnknown(clientId, sessionId, viewerId) ==
  /\ Receives(clientId)
  /\ roleMsgs < MaxRoleMsgs
  /\ roleMsgs' = roleMsgs + 1
  /\ IF sessionId \notin DOMAIN sessions
     THEN /\ sent' = SendError(readyState, clientId,
                               "Session not found or client invalid")
          /\ clients' = [clients EXCEPT ![clientId].sessionId = sessionId,
                                        ![clientId].type = "viewer",
                                        ![clientId].viewerId = viewerId]
          /\ UNCHANGED <<sessions, clientToSession, clientToViewerId>>
     ELSE LET session == sessions[sessionId]
              viewers == AddViewer(session.viewers, viewerId, clientId)
              size == Cardinality(DOMAIN viewers)
          IN /\ sessions' = [sessions EXCEPT
                  ![sessionId].viewers = viewers,
                  ![sessionId].stats.totalViewers = @ + 1,
                  ![sessionId].stats.peakViewers = Max(@, size)]
             /\ clientToSession' = MapSet(clientToSession, clientId, sessionId)
             /\ clientToViewerId' = MapSet(clientToViewerId, clientId, viewerId)
             /\ clients' = [clients EXCEPT ![clientId].sessionId = sessionId,
                                           ![clientId].type = "viewer",
                                           ![clientId].viewerId = viewerId]
             /\ sent' =
                  SendToClient(clients', readyState, session.hostClientId,
                     [t |-> "viewer-joined", viewerId |-> viewerId,
                      viewerCount |-> size])
                  \o SendToClient(clients', readyState, clientId,
                     [t |-> "viewer-joined-ack", s |-> sessionId,
                      uid |-> viewerId])
  /\ last' = Event("viewer-join", clientId,
                   [t |-> "viewer-join", s |-> sessionId, uid |-> viewerId])
  /\ UNCHANGED <<readyState, stats, now, nextId, hostReadySent>>

\* handleViewerJoin(clientId, {t: "viewer-join", s: sessionId, uid: viewerId})
HandleViewerJoin(clientId, sessionId, viewerId) ==
  /\ Receives(clientId)
  /\ roleMsgs < MaxRoleMsgs
  /\ roleMsgs' = roleMsgs + 1
  /\ IF sessionId \notin DOMAIN sessions
     THEN /\ sent' = SendError(readyState, clientId,
                               "Session not found or client invalid")
          /\ UNCHANGED <<clients, sessions, clientToSession, clientToViewerId>>
     ELSE LET session == sessions[sessionId]
              viewers == AddViewer(session.viewers, viewerId, clientId)
              size == Cardinality(DOMAIN viewers)
          IN /\ sessions' = [sessions EXCEPT
                  ![sessionId].viewers = viewers,
                  ![sessionId].stats.totalViewers = @ + 1,
                  ![sessionId].stats.peakViewers = Max(@, size)]
             /\ clientToSession' = MapSet(clientToSession, clientId, sessionId)
             /\ clientToViewerId' = MapSet(clientToViewerId, clientId, viewerId)
             /\ clients' = [clients EXCEPT ![clientId].sessionId = sessionId,
                                           ![clientId].type = "viewer",
                                           ![clientId].viewerId = viewerId]
             /\ sent' =
                  SendToClient(clients', readyState, session.hostClientId,
                     [t |-> "viewer-joined", viewerId |-> viewerId,
                      viewerCount |-> size])
                  \o SendToClient(clients', readyState, clientId,
                     [t |-> "viewer-joined-ack", s |-> sessionId,
                      uid |-> viewerId])
  /\ last' = Event("viewer-join", clientId,
                   [t |-> "viewer-join", s |-> sessionId, uid |-> viewerId])
  /\ UNCHANGED <<readyState, stats, now, nextId, hostReadySent>>

\* The transport of an open connection starts closing (the peer sent a
\* close frame, or the socket failed): ws.readyState leaves OPEN before the
\* "close" event is emitted.
TransportClosing(clientId) ==
  /\ clientId \in DOMAIN readyState
  /\ readyState[clientId] = "OPEN"
  /\ readyState' = [readyState EXCEPT ![clientId] = "CLOSING"]
  /\ sent' = <<>>
  /\ last' = Event("closing", clientId, NoMsg)
  /\ UNCHANGED <<relay, now, nextId, roleMsgs, hostReadySent>>

\* The frames of session.viewers.forEach(... sendToClient(getViewerClientId(ws),
\* {t: "host-disconnected"})) for the viewer ids in order.
RECURSIVE NotifyViewers(_, _, _, _, _)
NotifyViewers(cl, rs, viewers, order, sessionId) ==
  IF order = <<>> THEN <<>>
  ELSE SendToClient(cl, rs, GetViewerClientId(cl, viewers[Head(order)]),
                    [t |-> "host-disconnected", s |-> sessionId])
       \o NotifyViewers(cl, rs, viewers, Tail(order), sessionId)

\* The session table after handleDisconnection(clientId).
SessionsAfterDisconnection(clientId) ==
  IF clientId \notin DOMAIN clients THEN sessions
  ELSE LET client == clients[clientId] IN
    IF client.sessionId = NoSession \/ client.sessionId \notin DOMAIN sessions
    THEN sessions
    ELSE IF client.type = "host" THEN MapDelete(sessions, client.sessionId)
    ELSE IF client.type = "viewer"
    THEN [sessions EXCEPT ![client.sessionId].viewers =
             MapDelete(@, client.viewerId)]
    ELSE sessions

\* The frames handleDisconnection(clientId) writes, socket states rs.
SentByDisconnection(clientId, rs) ==
  IF clientId \notin DOMAIN clients THEN <<>>
  ELSE LET client == clients[clientId] IN
    IF client.sessionId = NoSession \/ client.sessionId \notin DOMAIN sessions
    THEN <<>>
    ELSE LET session == sessions[client.sessionId] IN
      IF client.type = "host"
      THEN NotifyViewers(clients, rs, session.viewers,
                         KeysInOrder(DOMAIN session.viewers), client.sessionId)
      ELSE IF client.type = "viewer"
      THEN SendToClient(clients, rs, session.hostClientId,
              [t |-> "viewer-count-changed", s |-> client.sessionId,
               count |-> Cardinality(DOMAIN session.viewers \ {client.viewerId})])
      ELSE <<>>

\* A disconnection that takes the connection off the total again.
StatsAfterDisconnectionUncounts(clientId) ==
  [stats EXCEPT !.totalConnections = @ - 1]

\* A disconnection that counts a session down for every closing host, whether
\* or not its session is still in the table.
StatsAfterDisconnectionAnyHost(clientId) ==
  IF clientId \in DOMAIN clients /\ clients[clientId].type = "host"
  THEN [stats EXCEPT !.activeSessions = @ - 1]
  ELSE stats

\* stats.activeSessions after handleDisconnection(clientId).
StatsAfterDisconnection(clientId) ==
  IF /\ clientId \in DOMAIN clients
     /\ clients[clientId].sessionId \in DOMAIN sessions
     /\ clients[clientId].type = "host"
  THEN [stats EXCEPT !.activeSessions = @ - 1]
  ELSE stats

\* ws.on("close"): the socket is closed and handleDisconnection runs.
HandleDisconnection(clientId) ==
  /\ clientId \in DOMAIN readyState
  /\ readyState[clientId] = "CLOSING"
  /\ readyState' = [readyState EXCEPT ![clientId] = "CLOSED"]
  /\ sessions' = SessionsAfterDisconnection(clientId)
  /\ stats' = StatsAfterDisconnection(clientId)
  /\ sent' = SentByDisconnection(clientId, readyState')
  /\ clients' = MapDelete(clients, clientId)
  /\ clientToSession' = MapDelete(clientToSession, clientId)
  /\ clientToViewerId' = MapDelete(clientToViewerId, clientId)
  /\ hostReadySent' = {p \in hostReadySent : p[1] \in DOMAIN clients'}
  /\ last' = Event("close", clientId, NoMsg)
  /\ UNCHANGED <<now, nextId, roleMsgs>>

\* ws.on("pong"): the liveness acknowledgment of a registered connection.
HandlePong(clientId) ==
  /\ Receives(clientId)
  /\ clients[clientId].lastPong # now
  /\ clients' = [clients EXCEPT ![clientId].lastPong = now]
  /\ sent' = <<>>
  /\ last' = Event("pong", clientId, NoMsg)
  /\ UNCHANGED <<readyState, sessions, clientToSession, clientToViewerId,
                 stats, now, nextId, roleMsgs, hostReadySent>>

\* A staleness test that gives a client one interval to answer.
IsStaleEager(client, t) == t - client.lastPong >= PingInterval

\* The health-check test of one registered client at time t.
IsStale(client, t) == t - client.lastPong > PongTimeout

\* The probes one health-check sweep writes, for the client ids in order.
RECURSIVE SweepPings(_, _)
SweepPings(order, t) ==
  IF order = <<>> THEN <<>>
  ELSE (IF readyState[Head(order)] = "OPEN" /\ ~IsStale(clients[Head(order)], t)
        THEN <<[to |-> Head(order), msg |-> [t |-> "ws-ping"]]>>
        ELSE <<>>)
       \o SweepPings(Tail(order), t)

\* The first setInterval callback of setupHealthCheck, PingInterval after
\* the previous one: stale open clients are terminated, the other open
\* clients are pinged, clients whose socket is not open are dropped from
\* this.clients.
HealthCheck ==
  /\ now + PingInterval <= MaxTicks * PingInterval
  /\ now' = now + PingInterval
  /\ readyState' = [c \in DOMAIN readyState |->
        IF c \in DOMAIN clients /\ readyState[c] = "OPEN"
           /\ IsStale(clients[c], now')
        THEN "CLOSING" ELSE readyState[c]]
  /\ clients' = [c \in {x \in DOMAIN clients : readyState[x] = "OPEN"} |->
                   clients[c]]
  /\ sent' = SweepPings(KeysInOrder(DOMAIN clients), now')
  /\ hostReadySent' = {p \in hostReadySent : p[1] \in DOMAIN clients'}
  /\ last' = Event("health-check", NoId, NoMsg)
  /\ UNCHANGED <<sessions, clientToSession, clientToViewerId, stats, nextId,
                 roleMsgs>>

\* handleOffer(clientId, {t: "offer", s: sessionId, d: offer, targetViewerId})
HandleOffer(clientId, sessionId, offer, targetViewerId) ==
  /\ Receives(clientId)
  /\ sent' =
       IF sessionId \notin DOMAIN sessions
          \/ sessions[sessionId].hostClientId # clientId
       THEN <<>>
       ELSE IF targetViewerId \in DOMAIN sessions[sessionId].viewers
       THEN SendToClient(clients, readyState,
              GetViewerClientId(clients,
                                sessions[sessionId].viewers[targetViewerId]),
              [t |-> "offer", s |-> sessionId, d |-> offer,
               hostId |-> clientId])
       ELSE <<>>
  /\ last' = Event("offer", clientId,
                   [t |-> "offer", s |-> sessionId, d |-> offer,
                    targetViewerId |-> targetViewerId])
  /\ UNCHANGED <<relay, readyState, now, nextId, roleMsgs, hostReadySent>>

\* new Set([session.hostClientId, ...session.viewers.keys()]) without the
\* sender, in iteration order: the keys of the viewer map are viewer ids.
CursorRecipients(session, clientId) ==
  SelectSeq(<<session.hostClientId>>
            \o SelectSeq(KeysInOrder(DOMAIN session.viewers),
                         LAMBDA k : k # session.hostClientId),
            LAMBDA r : r # clientId)

\* recipients.forEach(r => sendToClient(r, message))
RECURSIVE SendToAll(_, _, _, _)
SendToAll(cl, rs, recipients, message) ==
  IF recipients = <<>> THEN <<>>
  ELSE SendToClient(cl, rs, Head(recipients), message)
       \o SendToAll(cl, rs, Tail(recipients), message)

\* handleCursor(clientId, {t: "cursor", uid, pos})
HandleCursor(clientId, uid, pos) ==
  /\ Receives(clientId)
  /\ sent' =
       IF clients[clientId].sessionId = NoSession
          \/ clients[clientId].sessionId \notin DOMAIN sessions
       THEN <<>>
       ELSE SendToAll(clients, readyState,
              CursorRecipients(sessions[clients[clientId].sessionId], clientId),
              [t |-> "cursor", uid |-> uid, pos |-> pos])
  /\ last' = Event("cursor", clientId,
                   [t |-> "cursor", uid |-> uid, pos |-> pos])
  /\ UNCHANGED <<relay, readyState, now, nextId, roleMsgs, hostReadySent>>

\* An answer handler that reports a missing session to the sender.
HandleAnswerBounce(clientId, sessionId, answer) ==
  /\ Receives(clientId)
  /\ sent' =
       IF sessionId \notin DOMAIN sessions
       THEN SendError(readyState, clientId, "Session not found")
       ELSE IF clientId \notin DOMAIN clientToViewerId
       THEN <<>>
       ELSE SendToClient(clients, readyState,
              sessions[sessionId].hostClientId,
              [t |-> "answer", s |-> sessionId, d |-> answer,
               viewerId |-> clientToViewerId[clientId]])
  /\ last' = Event("answer", clientId,
                   [t |-> "answer", s |-> sessionId, d |-> answer])
  /\ UNCHANGED <<relay, readyState, now, nextId, roleMsgs, hostReadySent>>

\* handleAnswer(clientId, {t: "answer", s, d}): the viewer id comes from
\* clientToViewerId, the session from the message's s.
HandleAnswer(clientId, sessionId, answer) ==
  /\ Receives(clientId)
  /\ sent' =
       IF sessionId \notin DOMAIN sessions
          \/ clientId \notin DOMAIN clientToViewerId
       THEN <<>>
       ELSE SendToClient(clients, readyState,
              sessions[sessionId].hostClientId,
              [t |-> "answer", s |-> sessionId, d |-> answer,
               viewerId |-> clientToViewerId[clientId]])
  /\ last' = Event("answer", clientId,
                   [t |-> "answer", s |-> sessionId, d |-> answer])
  /\ UNCHANGED <<relay, readyState, now, nextId, roleMsgs, hostReadySent>>

\* A parse failure that drops the sender from the registry.
MessageParseErrorDrops(clientId) ==
  /\ Receives(clientId)
  /\ sent' = SendError(readyState, clientId, "Invalid message format")
  /\ clients' = MapDelete(clients, clientId)
  /\ last' = Event("parse-error", clientId, NoMsg)
  /\ UNCHANGED <<sessions, clientToSession, clientToViewerId, stats,
                 readyState, now, nextId, roleMsgs, hostReadySent>>

\* ws.on("message"): JSON.parse throws on the frame, the catch block replies
\* sendError(ws, "Invalid message format") and handleMessage is not called.
MessageParseError(clientId) ==
  /\ Receives(clientId)
  /\ sent' = SendError(readyState, clientId, "Invalid message format")
  /\ last' = Event("parse-error", clientId, NoMsg)
  /\ UNCHANGED <<relay, readyState, now, nextId, roleMsgs, hostReadySent>>


\* handleIceCandidate(clientId, {t: "ice-candidate", s, d, targetViewerId}):
\* the session is the sender's own (client.sessionId), the direction follows
\* client.type, the forwarded s is the one of the message.
HandleIceCandidate(clientId, sessionId, candidate, targetViewerId) ==
  /\ Receives(clientId)
  /\ sent' =
       LET client == clients[clientId] IN
       IF client.sessionId = NoSession
          \/ client.sessionId \notin DOMAIN sessions
       THEN <<>>
       ELSE LET session == sessions[client.sessionId] IN
         IF client.type = "host"
         THEN IF targetViewerId \in DOMAIN session.viewers
              THEN SendToClient(clients, readyState,
                     GetViewerClientId(clients,
                                       session.viewers[targetViewerId]),
                     [t |-> "ice-candidate", s |-> sessionId,
                      d |-> candidate, from |-> "host"])
              ELSE <<>>
         ELSE IF client.type = "viewer"
         THEN SendToClient(clients, readyState, session.hostClientId,
                [t |-> "ice-candidate", s |-> sessionId, d |-> candidate,
                 viewerId |-> client.viewerId, from |-> "viewer"])
         ELSE <<>>
  /\ last' = Event("ice-candidate", clientId,
                   [t |-> "ice-candidate", s |-> sessionId, d |-> candidate,
                    targetViewerId |-> targetViewerId])
  /\ UNCHANGED <<relay, readyState, now, nextId, roleMsgs, hostReadySent>>

\* The d of a stats frame: a report with a byte count, or no d at all.
NoStats == [missing |-> TRUE]

StatsReports == {NoStats} \cup {[bytesTransferred |-> b] : b \in 0..1}

\* handleStats(clientId, {t: "stats", s, d}): the session is looked up by the
\* message's s and the sender is not looked at. Without d the read of
\* stats.bytesTransferred throws inside the try block of the message
\* handler, whose catch replies "Invalid message format".
HandleStats(clientId, sessionId, d) ==
  /\ Receives(clientId)
  /\ IF sessionId \notin DOMAIN sessions
     THEN /\ sent' = <<>>
          /\ UNCHANGED sessions
     ELSE IF "bytesTransferred" \notin DOMAIN d
     THEN /\ sent' = SendError(readyState, clientId, "Invalid message format")
          /\ UNCHANGED sessions
     ELSE /\ sessions[sessionId].stats.dataTransferred + d.bytesTransferred
               <= MaxBytes
          /\ sessions' = [sessions EXCEPT
               ![sessionId].stats.dataTransferred = @ + d.bytesTransferred]
          /\ sent' = <<>>
  /\ last' = Event("stats", clientId,
                   [t |-> "stats", s |-> sessionId, d |-> d])
  /\ UNCHANGED <<clients, clientToSession, clientToViewerId, stats,
                 readyState, now, nextId, roleMsgs, hostReadySent>>

\* A ping that is not answered.
HandlePingSilent(clientId) ==
  /\ Receives(clientId)
  /\ sent' = <<>>
  /\ last' = Event("ping", clientId, [t |-> "ping"])
  /\ UNCHANGED <<relay, readyState, now, nextId, roleMsgs, hostReadySent>>

\* handleMessage, case "ping": sendToClient(clientId, {t: "pong"})
HandlePing(clientId) ==
  /\ Receives(clientId)
  /\ sent' = SendToClient(clients, readyState, clientId, [t |-> "pong"])
  /\ last' = Event("ping", clientId, [t |-> "ping"])
  /\ UNCHANGED <<relay, readyState, now, nextId, roleMsgs, hostReadySent>>

\* A frame of an unrecognized type that is answered with an error.
HandleUnknownBounce(clientId) ==
  /\ Receives(clientId)
  /\ sent' = SendError(readyState, clientId, "Unknown message type")
  /\ last' = Event("unknown", clientId, [t |-> "other"])
  /\ UNCHANGED <<relay, readyState, now, nextId, roleMsgs, hostReadySent>>

\* handleMessage, default: a frame whose t is none of the cases is logged.
HandleUnknown(clientId) ==
  /\ Receives(clientId)
  /\ sent' = <<>>
  /\ last' = Event("unknown", clientId, [t |-> "other"])
  /\ UNCHANGED <<relay, readyState, now, nextId, roleMsgs, hostReadySent>>

\* ------------------------------------------------------- arrivals and writes
\* The frames connections send in runs with queued frames: one session, one
\* viewer id, two answers.
OrderFrames ==
  {[t |-> "host-ready", s |-> "abc"],
   [t |-> "viewer-join", s |-> "abc", uid |-> 101]}
    \cup {[t |-> "answer", s |-> "abc", d |-> d] : d \in Payloads}

\* The number of frames that have arrived so far, on all sockets.
Arrived ==
  Cardinality({<<c, k>> \in (1..MaxConns) \X (1..MaxArrivals) :
                 k <= Len(inbox[c].frames)})

\* A frame arrives on the socket of an open, registered connection and
\* waits for its "message" event. A connection sends no frame twice, so that
\* a frame names its arrival.
Arrives(clientId, message) ==
  /\ Receives(clientId)
  /\ Arrived < MaxArrivals
  /\ \A k \in DOMAIN inbox[clientId].frames :
       inbox[clientId].frames[k] # message
  /\ inbox' = [inbox EXCEPT ![clientId].frames = Append(@, message)]
  /\ UNCHANGED <<relay, readyState, now, nextId, roleMsgs, hostReadySent,
                 sent, last, wire>>

\* ws.send(JSON.stringify(message)) for every frame a handler wrote, in the
\* order of the calls: each is appended to what its recipient's socket
\* carries, with the connection and the arrival whose handler wrote it.
RECURSIVE Written(_, _, _, _)
Written(w, frames, clientId, k) ==
  IF frames = <<>>
  THEN w
  ELSE Written([w EXCEPT ![Head(frames).to] =
                  Append(@, [by |-> clientId, arrival |-> k,
                             msg |-> Head(frames).msg])],
               Tail(frames), clientId, k)

\* handleMessage(clientId, message): the switch on message.t.
HandleMessage(clientId, message) ==
  \/ /\ message.t = "host-ready"
     /\ HandleHostReady(clientId, message.s)
  \/ /\ message.t = "viewer-join"
     /\ HandleViewerJoin(clientId, message.s, message.uid)
  \/ /\ message.t = "answer"
     /\ HandleAnswer(clientId, message.s, message.d)

\* A "message" event that takes the newest frame that has arrived first.
OnMessageNewestFirst(clientId) ==
  /\ inbox[clientId].next <= Len(inbox[clientId].frames)
  /\ LET k == Len(inbox[clientId].frames) - inbox[clientId].next + 1
         message == inbox[clientId].frames[k]
     IN /\ HandleMessage(clientId, message)
        /\ inbox' = [inbox EXCEPT ![clientId].next = @ + 1]
        /\ wire' = Written(wire, sent', clientId, k)

\* ws.on("message"): the socket emits the frames in arrival order, and the
\* callback runs handleMessage to its end, writes included, before the next
\* event is emitted.
OnMessage(clientId) ==
  /\ inbox[clientId].next <= Len(inbox[clientId].frames)
  /\ LET k == inbox[clientId].next
         message == inbox[clientId].frames[k]
     IN /\ HandleMessage(clientId, message)
        /\ inbox' = [inbox EXCEPT ![clientId].next = k + 1]
        /\ wire' = Written(wire, sent', clientId, k)

\* ------------------------------------------------------- termination signals
\* client.ws.close(1000, "Server shutting down") for the client ids in order:
\* the close frames written.
RECURSIVE CloseFrames(_)
CloseFrames(order) ==
  IF order = <<>> THEN <<>>
  ELSE <<[to |-> Head(order),
          msg |-> [t |-> "ws-close", code |-> NormalClosure]]>>
       \o CloseFrames(Tail(order))

\* process.on("SIGINT"): every registered client's socket is closed with
\* code 1000 (an open socket starts its closing handshake, any other is left
\* as it is), then this.server.close() stops the listener.
Sigint ==
  /\ process # "exited"
  /\ readyState' = [c \in DOMAIN readyState |->
        IF c \in DOMAIN clients /\ readyState[c] = "OPEN"
        THEN "CLOSING" ELSE readyState[c]]
  /\ sent' = CloseFrames(KeysInOrder({c \in DOMAIN clients :
                                        readyState[c] = "OPEN"}))
  /\ process' = "closing"
  /\ last' = Event("SIGINT", NoId, NoMsg)
  /\ UNCHANGED <<relay, now, nextId, roleMsgs, hostReadySent, queue,
                 signaling>>

\* process.on("SIGTERM"): this.server.close() stops the listener; no socket
\* is touched.
Sigterm ==
  /\ process # "exited"
  /\ process' = "closing"
  /\ sent' = <<>>
  /\ last' = Event("SIGTERM", NoId, NoMsg)
  /\ UNCHANGED <<relay, readyState, now, nextId, roleMsgs, hostReadySent,
                 queue, signaling>>

\* The callback of this.server.close(): the listener is closed and every
\* connection of the server has ended; process.exit(0).
Exit ==
  /\ process = "closing"
  /\ \A c \in DOMAIN readyState : readyState[c] = "CLOSED"
  /\ process' = "exited"
  /\ sent' = <<>>
  /\ last' = Event("exit", NoId, NoMsg)
  /\ UNCHANGED <<relay, readyState, now, nextId, roleMsgs, hostReadySent,
                 queue, signaling>>

\* ---------------------------------------------------------- SignalingClient
\* attemptReconnect() with a counter that is never checked.
AttemptReconnectUncapped(sc) ==
  [sc EXCEPT !.reconnectAttempts = @ + 1, !.timers = @ + 1]

\* attemptReconnect(): gives up at maxReconnectAttempts, otherwise counts the
\* attempt and sets the timer that will call connect().
AttemptReconnect(sc) ==
  IF sc.reconnectAttempts >= MaxReconnectAttempts
  THEN sc
  ELSE [sc EXCEPT !.reconnectAttempts = @ + 1, !.timers = @ + 1]

\* socket.onopen
OnOpen ==
  /\ signaling.socket = "CONNECTING"
  /\ signaling' = [signaling EXCEPT !.socket = "OPEN",
                                    !.isConnected = TRUE,
                                    !.reconnectAttempts = 0,
                                    !.closes = 0]
  /\ UNCHANGED <<serverSide, queue, process>>

\* socket.onclose: the socket has closed, because the connection attempt
\* failed, the peer or the network ended it, or close() was called.
OnClose ==
  /\ signaling.socket \in {"CONNECTING", "OPEN", "CLOSING"}
  /\ signaling' = AttemptReconnect([signaling EXCEPT !.socket = "CLOSED",
                                                     !.isConnected = FALSE,
                                                     !.closes = @ + 1])
  /\ UNCHANGED <<serverSide, queue, process>>

\* close(), called by the application: socket.close() starts closing a
\* socket that is connecting or open and does nothing to any other.
Close ==
  /\ signaling' = [signaling EXCEPT
        !.isConnected = FALSE,
        !.closeCalled = TRUE,
        !.socket = IF @ \in {"CONNECTING", "OPEN"} THEN "CLOSING" ELSE @]
  /\ UNCHANGED <<serverSide, queue, process>>

\* The setTimeout callback of attemptReconnect: connect() creates the next
\* socket.
ReconnectTimer ==
  /\ signaling.timers > 0
  /\ signaling.sockets < MaxSockets
  /\ signaling' = [signaling EXCEPT !.timers = @ - 1,
                                    !.socket = "CONNECTING",
                                    !.sockets = @ + 1]
  /\ UNCHANGED <<serverSide, queue, process>>

\* -------------------------------------------------------------- the machine
\* Role frames: host-ready and viewer-join from any registered connection.
RoleFrame ==
  \/ \E c \in DOMAIN clients, s \in SessionIds : HandleHostReady(c, s)
  \/ \E c \in DOMAIN clients, s \in SessionIds, v \in ViewerIds :
       HandleViewerJoin(c, s, v)

\* Routed frames: offer and cursor from any registered connection.
RoutedFrame ==
  \/ \E c \in DOMAIN clients, s \in SessionIds, d \in Payloads,
        v \in ViewerIds : HandleOffer(c, s, d, v)
  \/ \E c \in DOMAIN clients, v \in ViewerIds, p \in Payloads :
       HandleCursor(c, v, p)
  \/ \E c \in DOMAIN clients, s \in SessionIds, d \in Payloads :
       HandleAnswer(c, s, d)
  \/ \E c \in DOMAIN clients, s \in SessionIds, d \in Payloads,
        v \in ViewerIds : HandleIceCandidate(c, s, d, v)

Next ==
  \/ Connection /\ UNCHANGED idle
  \/ RoleFrame /\ UNCHANGED idle
  \/ RoutedFrame /\ UNCHANGED idle
  \/ \E c \in DOMAIN clients : MessageParseError(c) /\ UNCHANGED idle
  \/ \E c \in DOMAIN clients, s \in SessionIds, d \in StatsReports :
       HandleStats(c, s, d) /\ UNCHANGED idle
  \/ \E c \in DOMAIN clients : HandlePing(c) /\ UNCHANGED idle
  \/ \E c \in DOMAIN clients : HandleUnknown(c) /\ UNCHANGED idle
  \/ \E c \in DOMAIN readyState : TransportClosing(c) /\ UNCHANGED idle
  \/ \E c \in DOMAIN readyState : HandleDisconnection(c) /\ UNCHANGED idle
  \/ \E c \in DOMAIN clients : HandlePong(c) /\ UNCHANGED idle
  \/ HealthCheck /\ UNCHANGED idle

\* Every event of the relay, in any order.
Spec == Init /\ [][Next]_vars

\* Connections, role frames and closes (the clock stands still).
SessionNext ==
  \/ Connection /\ UNCHANGED idle
  \/ \E c \in DOMAIN clients, s \in SessionIds : HandleHostReady(c, s)
       /\ UNCHANGED idle
  \/ \E c \in DOMAIN clients, s \in SessionIds, v \in ViewerIds :
       HandleViewerJoin(c, s, v) /\ UNCHANGED idle
  \/ \E c \in DOMAIN readyState : TransportClosing(c) /\ UNCHANGED idle
  \/ \E c \in DOMAIN readyState : HandleDisconnection(c) /\ UNCHANGED idle

SpecSession == Init /\ [][SessionNext]_vars

\* Connections, role frames and routed frames on open connections.
RouteNext ==
  \/ Connection /\ UNCHANGED idle
  \/ \E c \in DOMAIN clients, s \in SessionIds : HandleHostReady(c, s)
       /\ UNCHANGED idle
  \/ \E c \in DOMAIN clients, s \in SessionIds, v \in ViewerIds :
       HandleViewerJoin(c, s, v) /\ UNCHANGED idle
  \/ \E c \in DOMAIN clients, s \in SessionIds, d \in Payloads,
        v \in ViewerIds : HandleOffer(c, s, d, v) /\ UNCHANGED idle
  \/ \E c \in DOMAIN clients, v \in ViewerIds, p \in Payloads :
       HandleCursor(c, v, p) /\ UNCHANGED idle
  \/ \E c \in DOMAIN clients, s \in SessionIds, d \in Payloads :
       HandleAnswer(c, s, d) /\ UNCHANGED idle

SpecRoute == Init /\ [][RouteNext]_vars

\* Connections, closes, pongs and health checks, with HealthConns
\* connections and HealthRoleMsgs role frames.
HealthNext ==
  \/ /\ nextId <= HealthConns
     /\ Connection
     /\ UNCHANGED idle
  \/ /\ roleMsgs < HealthRoleMsgs
     /\ RoleFrame
     /\ UNCHANGED idle
  \/ \E c \in DOMAIN readyState : TransportClosing(c) /\ UNCHANGED idle
  \/ \E c \in DOMAIN readyState : HandleDisconnection(c) /\ UNCHANGED idle
  \/ \E c \in DOMAIN clients : HandlePong(c) /\ UNCHANGED idle
  \/ HealthCheck /\ UNCHANGED idle

SpecHealth == Init /\ [][HealthNext]_vars

\* Connections, role frames, frames that do not parse, pings and frames of
\* an unrecognized type, on open connections.
FrameNext ==
  \/ Connection /\ UNCHANGED idle
  \/ \E c \in DOMAIN clients, s \in SessionIds : HandleHostReady(c, s)
       /\ UNCHANGED idle
  \/ \E c \in DOMAIN clients, s \in SessionIds, v \in ViewerIds :
       HandleViewerJoin(c, s, v) /\ UNCHANGED idle
  \/ \E c \in DOMAIN clients : MessageParseError(c) /\ UNCHANGED idle
  \/ \E c \in DOMAIN clients : HandlePing(c) /\ UNCHANGED idle
  \/ \E c \in DOMAIN clients : HandleUnknown(c) /\ UNCHANGED idle

SpecFrames == Init /\ [][FrameNext]_vars

\* Connections, role frames, closes and the first health check.
SweepNext ==
  \/ Connection /\ UNCHANGED idle
  \/ \E c \in DOMAIN clients, s \in SessionIds : HandleHostReady(c, s)
       /\ UNCHANGED idle
  \/ \E c \in DOMAIN clients, s \in SessionIds, v \in ViewerIds :
       HandleViewerJoin(c, s, v) /\ UNCHANGED idle
  \/ \E c \in DOMAIN readyState : TransportClosing(c) /\ UNCHANGED idle
  \/ \E c \in DOMAIN readyState : HandleDisconnection(c) /\ UNCHANGED idle
  \/ /\ now = 0
     /\ HealthCheck
     /\ UNCHANGED idle

SpecSweep == Init /\ [][SweepNext]_vars

\* Heartbeat runs: connections, role frames, pongs, health checks and close
\* events; a socket leaves OPEN only when the health check terminates it.
HeartbeatNext ==
  \/ /\ nextId <= HealthConns
     /\ Connection
     /\ UNCHANGED idle
  \/ /\ roleMsgs < HealthRoleMsgs
     /\ RoleFrame
     /\ UNCHANGED idle
  \/ \E c \in DOMAIN readyState : HandleDisconnection(c) /\ UNCHANGED idle
  \/ \E c \in DOMAIN clients : HandlePong(c) /\ UNCHANGED idle
  \/ HealthCheck /\ UNCHANGED idle

SpecHeartbeat == Init /\ [][HeartbeatNext]_vars

\* Forwarded frames (offer, answer, ice-candidate) between ForwardConns
\* connections after ForwardRoleMsgs role frames, with sockets that may have
\* started closing.
ForwardNext ==
  \/ /\ nextId <= ForwardConns
     /\ Connection
     /\ UNCHANGED idle
  \/ /\ roleMsgs < ForwardRoleMsgs
     /\ RoleFrame
     /\ UNCHANGED idle
  \/ \E c \in DOMAIN readyState : TransportClosing(c) /\ UNCHANGED idle
  \/ \E c \in DOMAIN clients, s \in SessionIds, d \in Payloads,
        v \in ViewerIds : HandleOffer(c, s, d, v) /\ UNCHANGED idle
  \/ \E c \in DOMAIN clients, s \in SessionIds, d \in Payloads :
       HandleAnswer(c, s, d) /\ UNCHANGED idle
  \/ \E c \in DOMAIN clients, s \in SessionIds, d \in Payloads,
        v \in ViewerIds : HandleIceCandidate(c, s, d, v) /\ UNCHANGED idle

SpecForward == Init /\ [][ForwardNext]_vars

\* Connections, role frames and stats frames on open connections.
StatsNext ==
  \/ Connection /\ UNCHANGED idle
  \/ \E c \in DOMAIN clients, s \in SessionIds : HandleHostReady(c, s)
       /\ UNCHANGED idle
  \/ \E c \in DOMAIN clients, s \in SessionIds, v \in ViewerIds :
       HandleViewerJoin(c, s, v) /\ UNCHANGED idle
  \/ \E c \in DOMAIN clients, s \in SessionIds, d \in StatsReports :
       HandleStats(c, s, d) /\ UNCHANGED idle

SpecStats == Init /\ [][StatsNext]_vars

\* Frames that arrive on OrderConns connections and are handled one "message"
\* event at a time, every socket open.
OrderNext ==
  \/ /\ nextId <= OrderConns
     /\ Connection
     /\ UNCHANGED idle
  \/ \E c \in DOMAIN clients, m \in OrderFrames :
       Arrives(c, m) /\ UNCHANGED outside
  \/ \E c \in DOMAIN clients : OnMessage(c) /\ UNCHANGED outside

SpecOrder == Init /\ [][OrderNext]_vars

\* Runs that end with a termination signal: connections are accepted while
\* the listener is open, frames and closes are handled until the process
\* has exited.
ShutdownNext ==
  \/ /\ process = "running"
     /\ Connection
     /\ UNCHANGED idle
  \/ /\ process # "exited"
     /\ RoleFrame
     /\ UNCHANGED idle
  \/ \E c \in DOMAIN readyState :
       process # "exited" /\ TransportClosing(c) /\ UNCHANGED idle
  \/ \E c \in DOMAIN readyState :
       process # "exited" /\ HandleDisconnection(c) /\ UNCHANGED idle
  \/ Sigint
  \/ Sigterm
  \/ Exit

SpecShutdown == Init /\ [][ShutdownNext]_vars

\* Every handler of the server: connections, EveryRoleMsgs role frames, the
\* routed frames for session "abc" and viewer id 101, stats frames while the
\* session has counted no bytes, frames that do not parse, pings, unknown
\* frames, closes, pongs and the first health check.
EveryNext ==
  \/ /\ nextId <= EveryConns
     /\ Connection
     /\ UNCHANGED idle
  \/ /\ roleMsgs < EveryRoleMsgs
     /\ RoleFrame
     /\ UNCHANGED idle
  \/ \E c \in DOMAIN clients :
       HandleOffer(c, "abc", "d1", 101) /\ UNCHANGED idle
  \/ \E c \in DOMAIN clients : HandleCursor(c, 101, "d1") /\ UNCHANGED idle
  \/ \E c \in DOMAIN clients : HandleAnswer(c, "abc", "d1") /\ UNCHANGED idle
  \/ \E c \in DOMAIN clients :
       HandleIceCandidate(c, "abc", "d1", 101) /\ UNCHANGED idle
  \/ \E c \in DOMAIN clients : MessageParseError(c) /\ UNCHANGED idle
  \/ \E c \in DOMAIN clients, d \in StatsReports :
       /\ "abc" \in DOMAIN sessions => sessions["abc"].stats.dataTransferred = 0
       /\ HandleStats(c, "abc", d)
       /\ UNCHANGED idle
  \/ \E c \in DOMAIN clients : HandlePing(c) /\ UNCHANGED idle
  \/ \E c \in DOMAIN clients : HandleUnknown(c) /\ UNCHANGED idle
  \/ \E c \in DOMAIN readyState : TransportClosing(c) /\ UNCHANGED idle
  \/ \E c \in DOMAIN readyState : HandleDisconnection(c) /\ UNCHANGED idle
  \/ \E c \in DOMAIN clients : HandlePong(c) /\ UNCHANGED idle
  \/ /\ now = 0
     /\ HealthCheck
     /\ UNCHANGED idle

SpecEvery == Init /\ [][EveryNext]_vars

\* The heartbeat alone: ProbeConns connections without roles, their pongs,
\* the health checks, and the closes of sockets that were terminated or
\* closed by the peer.
ProbeNext ==
  \/ /\ nextId <= ProbeConns
     /\ Connection
     /\ UNCHANGED idle
  \/ \E c \in DOMAIN clients : HandlePong(c) /\ UNCHANGED idle
  \/ HealthCheck /\ UNCHANGED idle
  \/ \E c \in DOMAIN readyState : TransportClosing(c) /\ UNCHANGED idle
  \/ \E c \in DOMAIN readyState : HandleDisconnection(c) /\ UNCHANGED idle

SpecProbe == Init /\ [][ProbeNext]_vars

\* Sessions coming and going: HealthConns connections, HealthRoleMsgs role
\* frames, closes and the first health check.
TallyNext ==
  \/ /\ nextId <= HealthConns
     /\ Connection
     /\ UNCHANGED idle
  \/ /\ roleMsgs < HealthRoleMsgs
     /\ RoleFrame
     /\ UNCHANGED idle
  \/ \E c \in DOMAIN readyState : TransportClosing(c) /\ UNCHANGED idle
  \/ \E c \in DOMAIN readyState : HandleDisconnection(c) /\ UNCHANGED idle
  \/ /\ now = 0
     /\ HealthCheck
     /\ UNCHANGED idle

SpecTally == Init /\ [][TallyNext]_vars

\* One SignalingClient: its socket opens and closes, its reconnect timer
\* fires, and the application calls close() at any time.
ClientNext ==
  \/ OnOpen
  \/ OnClose
  \/ Close
  \/ ReconnectTimer

SpecClient == Init /\ [][ClientNext]_vars

\* ------------------------------------------------------------------- claims
\* The registered connections whose record says host of session s.
HostsOf(s) ==
  {c \in DOMAIN clients : clients[c].type = "host" /\ clients[c].sessionId = s}

\* The sockets a session's viewer map refers to.
ViewerRefs(session) == {session.viewers[v] : v \in DOMAIN session.viewers}

\* The connections that were written to by the last handler.
Receivers == {sent[i].to : i \in DOMAIN sent}

\* C1: for every session id in the session table, at most one registered
\* connection has type host and that sessionId.
C1_AtMostOneHostPerSession ==
  \A s \in DOMAIN sessions : Cardinality(HostsOf(s)) <= 1

\* C2: a session id is in the session table if and only if some connection
\* still in the registry has sent host-ready for it.
C2_SessionIffLiveHostReady ==
  \A s \in SessionIds :
    (s \in DOMAIN sessions)
      <=> (\E c \in DOMAIN clients : <<c, s>> \in hostReadySent)

\* C3: the host reference and every viewer reference of every session point
\* to a connection that is in the registry.
C3_ReferencesAreRegistered ==
  \A s \in DOMAIN sessions :
    /\ sessions[s].hostClientId \in DOMAIN clients
    /\ sessions[s].hostWs \in DOMAIN clients
    /\ ViewerRefs(sessions[s]) \subseteq DOMAIN clients

\* C4: every entry (V -> c) of the viewer map of session S, c not being the
\* host of S, refers to a registered connection c with type viewer,
\* sessionId S and viewerId V.
C4_ViewerEntryMatchesConnection ==
  \A s \in DOMAIN sessions : \A v \in DOMAIN sessions[s].viewers :
    LET c == sessions[s].viewers[v] IN
      c # sessions[s].hostClientId =>
      /\ c \in DOMAIN clients
      /\ clients[c].type = "viewer"
      /\ clients[c].sessionId = s
      /\ clients[c].viewerId = v

\* C5: no two distinct registered viewer connections of the same session
\* (neither of them in the host slot of a session) carry the same viewerId.
C5_ViewerIdUniqueInSession ==
  \A c1 \in DOMAIN clients : \A c2 \in DOMAIN clients \ {c1} :
    ~ /\ clients[c1].type = "viewer"
      /\ clients[c2].type = "viewer"
      /\ \A s \in DOMAIN sessions : sessions[s].hostClientId \notin {c1, c2}
      /\ clients[c1].sessionId = clients[c2].sessionId
      /\ clients[c1].viewerId = clients[c2].viewerId

\* C6: a viewer-join from a connection without a role, for a session whose
\* viewer map already holds the uid for another connection (not the host),
\* is rejected: the viewer map keeps its entries and the joining connection's
\* record is not changed.
C6_DuplicateViewerIdRejected ==
  [][ (/\ last'.op = "viewer-join"
       /\ roleMsgs' = roleMsgs + 1
       /\ clients[last'.c].type = NoType
       /\ last'.m.s \in DOMAIN sessions
       /\ last'.m.uid \in DOMAIN sessions[last'.m.s].viewers
       /\ sessions[last'.m.s].viewers[last'.m.uid]
            \notin {last'.c, sessions[last'.m.s].hostClientId})
      => (/\ sessions'[last'.m.s].viewers = sessions[last'.m.s].viewers
          /\ clients'[last'.c] = clients[last'.c]) ]_vars

\* C7: a host-ready for a session id that is in the table keeps the set of
\* sessions, makes the sender the host, and keeps the viewer map, createdAt
\* and counters of that session and every other session; the same host-ready
\* repeated at once by the same connection changes nothing in the relay.
C7_HostReadyReusesSession ==
  [][ (/\ last'.op = "host-ready"
       /\ roleMsgs' = roleMsgs + 1
       /\ last'.m.s \in DOMAIN sessions)
      => LET s == last'.m.s
             c == last'.c
         IN /\ DOMAIN sessions' = DOMAIN sessions
            /\ stats'.activeSessions = stats.activeSessions
            /\ sessions'[s].hostClientId = c
            /\ sessions'[s].hostWs = c
            /\ sessions'[s].viewers = sessions[s].viewers
            /\ sessions'[s].createdAt = sessions[s].createdAt
            /\ sessions'[s].stats = sessions[s].stats
            /\ \A o \in DOMAIN sessions \ {s} : sessions'[o] = sessions[o]
            /\ (last = last' => relay' = relay) ]_vars

\* C7 witness: a host-ready has just replaced the host of a session that
\* has viewers and another connection registered as its host.
C7_Witness ==
  /\ last.op = "host-ready"
  /\ last.m.s \in DOMAIN sessions
  /\ sessions[last.m.s].hostClientId = last.c
  /\ sessions[last.m.s].viewers # <<>>
  /\ sessions[last.m.s].stats.totalViewers > 0
  /\ HostsOf(last.m.s) \ {last.c} # {}

\* C8: when the connection that closes is an earlier host of session S, and S
\* has since been re-registered by another registered host and has viewers
\* on connections of their own, the close keeps S with its host and viewers
\* and sends no host-disconnected.
C8_HostReconnectKeepsSession ==
  [][ \A h1 \in DOMAIN clients :
        (/\ last'.op = "close"
         /\ last'.c = h1
         /\ readyState[h1] = "CLOSING"
         /\ readyState'[h1] = "CLOSED"
         /\ clients[h1].type = "host"
         /\ clients[h1].sessionId \in DOMAIN sessions
         /\ sessions[clients[h1].sessionId].hostClientId \in
              HostsOf(clients[h1].sessionId) \ {h1}
         /\ sessions[clients[h1].sessionId].viewers # <<>>
         /\ ViewerRefs(sessions[clients[h1].sessionId])
              \cap HostsOf(clients[h1].sessionId) = {})
        => (/\ clients[h1].sessionId \in DOMAIN sessions'
            /\ sessions'[clients[h1].sessionId]
                 = sessions[clients[h1].sessionId]
            /\ \A i \in DOMAIN sent' :
                 sent'[i].msg.t # "host-disconnected") ]_vars

\* C9: an offer from the current host of S for a viewer id V of S's viewer
\* map, the socket stored for V being registered, open and not the host's
\* own, is written to exactly one connection, whose sessionId is S and whose
\* viewerId is V, as
\* {t: offer, s: S, d, hostId} with the d that was sent and the sender's id.
C9_OfferReachesOnlyTarget ==
  (/\ last.op = "offer"
   /\ last.m.s \in DOMAIN sessions
   /\ sessions[last.m.s].hostClientId = last.c
   /\ last.m.targetViewerId \in DOMAIN sessions[last.m.s].viewers
   /\ sessions[last.m.s].viewers[last.m.targetViewerId]
        \in DOMAIN clients \ {last.c}
   /\ readyState[sessions[last.m.s].viewers[last.m.targetViewerId]] = "OPEN")
  => \E r \in DOMAIN clients \ {last.c} :
       /\ clients[r].sessionId = last.m.s
       /\ clients[r].viewerId = last.m.targetViewerId
       /\ sent = <<[to |-> r,
                    msg |-> [t |-> "offer", s |-> last.m.s, d |-> last.m.d,
                             hostId |-> last.c]]>>

\* C10: a cursor frame from the host or a viewer of session S is written
\* unchanged, once, to every other open connection of S (its host and the
\* connections of its viewer map) and to nobody else.
C10_CursorFanOut ==
  (/\ last.op = "cursor"
   /\ clients[last.c].type \in {"host", "viewer"}
   /\ clients[last.c].sessionId \in DOMAIN sessions)
  => LET session == sessions[clients[last.c].sessionId]
         members == {r \in ({session.hostClientId} \cup ViewerRefs(session))
                            \ {last.c} :
                       r \in DOMAIN clients /\ readyState[r] = "OPEN"}
     IN /\ Receivers = members
        /\ Len(sent) = Cardinality(members)
        /\ \A i \in DOMAIN sent :
             sent[i].msg = [t |-> "cursor", uid |-> last.m.uid,
                            pos |-> last.m.pos]

\* C11: when the connection in the host slot of session S closes (a
\* connection that sent host-ready for S only and never joined as a viewer),
\* S is removed from the session table in that step and every viewer of S
\* whose connection is registered and open is sent
\* {t: host-disconnected, s: S}.
C11_HostCloseEndsSession ==
  [][\A s \in DOMAIN sessions :
       (/\ last'.op = "close"
        /\ last'.c = sessions[s].hostClientId
        /\ \A t \in SessionIds : <<last'.c, t>> \in hostReadySent => t = s
        /\ last'.c \notin DOMAIN clientToViewerId)
       => /\ s \notin DOMAIN sessions'
          /\ \A w \in ViewerRefs(sessions[s]) :
               (w \in DOMAIN clients /\ readyState[w] = "OPEN")
               => \E i \in DOMAIN sent' :
                    sent'[i] = [to |-> w,
                                msg |-> [t |-> "host-disconnected",
                                         s |-> s]]]_vars

\* C12: after the host of session S has closed, the next host-ready for S
\* (from a connection without a role, while the viewers that joined the old
\* session are still registered and open) leaves S with an empty viewer map
\* and zero counters.
C12_NextHostReadyIsFresh ==
  [][\A s \in DOMAIN sessions :
       (/\ last'.op = "host-ready"
        /\ roleMsgs' = roleMsgs + 1
        /\ last'.m.s = s
        /\ clients[last'.c].type = NoType
        /\ readyState[sessions[s].hostClientId] = "CLOSED"
        /\ ViewerRefs(sessions[s]) # {}
        /\ \A w \in ViewerRefs(sessions[s]) :
             /\ w \in DOMAIN clients
             /\ readyState[w] = "OPEN"
             /\ clients[w].type = "viewer"
             /\ clients[w].sessionId = s)
       => /\ sessions'[s].viewers = <<>>
          /\ sessions'[s].stats.totalViewers = 0
          /\ sessions'[s].stats.peakViewers = 0]_vars

\* A viewer-join step for a session that is in the table.
JoinSucceeds ==
  /\ last'.op = "viewer-join"
  /\ roleMsgs' = roleMsgs + 1
  /\ last'.m.s \in DOMAIN sessions

\* The frame the host gets on a join of viewer id v that leaves n entries.
ViewerJoinedFrame(host, v, n) ==
  [to |-> host,
   msg |-> [t |-> "viewer-joined", viewerId |-> v, viewerCount |-> n]]

\* The frame the joining connection gets.
ViewerJoinedAck(c, s, v) ==
  [to |-> c, msg |-> [t |-> "viewer-joined-ack", s |-> s, uid |-> v]]

\* C13 (as stated): a successful viewer-join {s: S, uid: V} writes
\* viewer-joined (V, n) to the connection in the host slot of S and
\* viewer-joined-ack to the joining connection, n being the size of the
\* viewer map after the join, and writes to nobody else.
C13_JoinNotifiesHost ==
  [][JoinSucceeds =>
       LET s == last'.m.s
           v == last'.m.uid
           n == Cardinality(DOMAIN sessions'[s].viewers)
       IN sent' = <<ViewerJoinedFrame(sessions[s].hostClientId, v, n),
                    ViewerJoinedAck(last'.c, s, v)>>]_vars

\* C13 (amended): a successful viewer-join writes viewer-joined-ack to the
\* joining connection, and viewer-joined (V, n) to the connection in the host
\* slot of S exactly when that connection is registered and its socket is
\* open; n is the size of the viewer map after the join; nobody else is
\* written to.
C13_JoinNotifiesOpenHost ==
  [][JoinSucceeds =>
       LET s == last'.m.s
           v == last'.m.uid
           h == sessions[s].hostClientId
           n == Cardinality(DOMAIN sessions[s].viewers \cup {v})
       IN /\ n = Cardinality(DOMAIN sessions'[s].viewers)
          /\ sent' = (IF h \in DOMAIN clients /\ readyState[h] = "OPEN"
                      THEN <<ViewerJoinedFrame(h, v, n)>>
                      ELSE <<>>)
                     \o <<ViewerJoinedAck(last'.c, s, v)>>]_vars

\* The second viewer of a session has joined: the open host was told the
\* count 2 and the joining connection got its ack.
C13_Witness ==
  /\ last.op = "viewer-join"
  /\ last.m.s \in DOMAIN sessions
  /\ Len(sent) = 2
  /\ sent[1] = ViewerJoinedFrame(sessions[last.m.s].hostClientId, last.m.uid, 2)
  /\ sent[2] = ViewerJoinedAck(last.c, last.m.s, last.m.uid)
  /\ sent[1].to # sent[2].to

\* C14: a host-ready {s: S} from a connection without a role, for an S that
\* is not in the session table, writes {t: host-ready-ack, s: S} to the
\* sender and to nobody else, and leaves S in the table with the sender in
\* the host slot and an empty viewer map.
C14_FirstHostReadyCreatesSession ==
  [][(/\ last'.op = "host-ready"
      /\ roleMsgs' = roleMsgs + 1
      /\ last'.m.s \notin DOMAIN sessions
      /\ clients[last'.c].type = NoType)
     => LET s == last'.m.s
            c == last'.c
        IN /\ sent' = <<[to |-> c,
                         msg |-> [t |-> "host-ready-ack", s |-> s]]>>
           /\ DOMAIN sessions' = DOMAIN sessions \cup {s}
           /\ sessions'[s].hostClientId = c
           /\ sessions'[s].hostWs = c
           /\ sessions'[s].viewers = <<>>
           /\ clients'[c].type = "host"
           /\ clients'[c].sessionId = s]_vars

\* The first role frame of the run was a host-ready: its session now exists
\* with the sender as host and no viewers.
C14_Witness ==
  /\ last.op = "host-ready"
  /\ roleMsgs = 1
  /\ last.m.s \in DOMAIN sessions
  /\ sessions[last.m.s].hostClientId = last.c
  /\ sessions[last.m.s].viewers = <<>>
  /\ sent = <<[to |-> last.c,
               msg |-> [t |-> "host-ready-ack", s |-> last.m.s]]>>

\* A viewer-join step for a session that is not in the table.
JoinUnknown ==
  /\ last'.op = "viewer-join"
  /\ roleMsgs' = roleMsgs + 1
  /\ last'.m.s \notin DOMAIN sessions

\* The error frame sendError writes to connection c.
ErrorFrame(c, message) ==
  [to |-> c, msg |-> [t |-> "error", message |-> message]]

\* C15 (as stated): a viewer-join for a session id that is not in the
\* session table is answered to the sender with exactly
\* {t: "error", message: "Session not found"}.
C15_UnknownSessionError ==
  [][JoinUnknown
     => sent' = <<ErrorFrame(last'.c, "Session not found")>>]_vars

\* C15 (amended): a viewer-join for a session id that is not in the session
\* table is answered to the sender, and to nobody else, with exactly
\* {t: "error", message: "Session not found or client invalid"}.
C15_UnknownSessionErrorText ==
  [][JoinUnknown
     => sent' = <<ErrorFrame(last'.c,
                             "Session not found or client invalid")>>]_vars

\* After a connection has closed and its session is gone, a viewer-join for
\* a session that is not in the table was answered with the error frame.
C15_Witness ==
  /\ last.op = "viewer-join"
  /\ last.m.s \notin DOMAIN sessions
  /\ stats.activeSessions = 0
  /\ \E h \in DOMAIN readyState : readyState[h] = "CLOSED"
  /\ roleMsgs = 2
  /\ sent = <<ErrorFrame(last.c, "Session not found or client invalid")>>

\* C16: a viewer-join for a session that is not in the table changes no
\* state: registry, session table, clientToSession, clientToViewerId and
\* counters are as before, no socket changes state, the sender stays
\* registered and open, and a sender without a role still has none.
C16_UnknownJoinChangesNothing ==
  [][JoinUnknown
     => /\ relay' = relay
        /\ readyState' = readyState
        /\ last'.c \in DOMAIN clients'
        /\ readyState'[last'.c] = "OPEN"
        /\ (clients[last'.c].type = NoType
            => /\ clients'[last'.c].type = NoType
               /\ clients'[last'.c].sessionId = NoSession)]_vars

\* A connection without a role asked for a session that does not exist while
\* another session does: it is still registered, open and without a role.
C16_Witness ==
  /\ last.op = "viewer-join"
  /\ last.m.s \notin DOMAIN sessions
  /\ sessions # <<>>
  /\ last.c \in DOMAIN clients
  /\ readyState[last.c] = "OPEN"
  /\ clients[last.c].type = NoType
  /\ clients[last.c].sessionId = NoSession
  /\ last.c \notin DOMAIN clientToSession

\* C17: when a registered viewer connection of session S (with at most one
\* entry in S's viewer map) closes while the host of S is registered and
\* open, no entry of S's viewer map refers to it
\* afterwards, every entry that referred to another connection is kept, S
\* stays in the table, and the host is sent
\* {t: viewer-count-changed, s: S, count: n}, n being the size of the viewer
\* map after the removal.
C17_ViewerCloseKeepsOthers ==
  [][\A s \in DOMAIN sessions :
       LET c == last'.c
           h == sessions[s].hostClientId
       IN (/\ last'.op = "close"
           /\ c \in DOMAIN clients
           /\ clients[c].type = "viewer"
           /\ clients[c].sessionId = s
           /\ Cardinality({v \in DOMAIN sessions[s].viewers :
                             sessions[s].viewers[v] = c}) <= 1
           /\ h \in DOMAIN clients
           /\ h # c
           /\ clients[h].type = "host"
           /\ readyState[h] = "OPEN")
          => /\ s \in DOMAIN sessions'
             /\ c \notin ViewerRefs(sessions'[s])
             /\ \A v \in DOMAIN sessions[s].viewers :
                  sessions[s].viewers[v] # c
                  => /\ v \in DOMAIN sessions'[s].viewers
                     /\ sessions'[s].viewers[v] = sessions[s].viewers[v]
             /\ sent' = <<[to |-> h,
                           msg |-> [t |-> "viewer-count-changed", s |-> s,
                                    count |-> Cardinality(
                                      DOMAIN sessions'[s].viewers)]]>>]_vars

\* C18: a frame that does not parse as JSON writes one {t: "error"} frame to
\* its sender and nothing to anybody else, and changes no state: registry,
\* session table, maps, counters and socket states are as before and the
\* sender is still registered and open; a well-formed host-ready it sends
\* next is handled as usual (acked, the sender becomes host of the session).
C18_ParseErrorOnlyReplies ==
  [][/\ last'.op = "parse-error"
        => /\ sent' = <<ErrorFrame(last'.c, "Invalid message format")>>
           /\ relay' = relay
           /\ readyState' = readyState
           /\ roleMsgs' = roleMsgs
           /\ last'.c \in DOMAIN clients'
           /\ readyState'[last'.c] = "OPEN"
     /\ (/\ last.op = "parse-error"
         /\ last'.op = "host-ready"
         /\ last'.c = last.c)
        => /\ sent' = <<[to |-> last'.c,
                         msg |-> [t |-> "host-ready-ack", s |-> last'.m.s]]>>
           /\ sessions'[last'.m.s].hostClientId = last'.c
           /\ clients'[last'.c].type = "host"]_vars

\* A viewer of a live session sent a frame that does not parse: it got the
\* error frame, and its session still lists it.
C18_Witness ==
  /\ last.op = "parse-error"
  /\ sent = <<ErrorFrame(last.c, "Invalid message format")>>
  /\ clients[last.c].type = "viewer"
  /\ clients[last.c].sessionId \in DOMAIN sessions
  /\ last.c \in ViewerRefs(sessions[clients[last.c].sessionId])
  /\ readyState[last.c] = "OPEN"

\* C19: role gating: once a registered connection has a role (host or
\* viewer), no step changes its type, its sessionId or its viewerId.
C19_RoleAssignedOnce ==
  [][\A c \in DOMAIN clients \cap DOMAIN clients' :
       clients[c].type # NoType
       => /\ clients'[c].type = clients[c].type
          /\ clients'[c].sessionId = clients[c].sessionId
          /\ clients'[c].viewerId = clients[c].viewerId]_vars

\* C20: an answer {s: S, d} from a connection that is a viewer of S is
\* written to the connection in the host slot of S, and to nobody else, as
\* {t: answer, s: S, d, viewerId: V} with V the id the sender joined with; an
\* answer from a connection whose role is not viewer (and which is not in
\* the host slot of S) is written to nobody.
C20_AnswerOnlyFromViewers ==
  (last.op = "answer" /\ last.m.s \in DOMAIN sessions)
  => LET c == last.c
         s == last.m.s
         h == sessions[s].hostClientId
     IN /\ (/\ clients[c].type = "viewer"
            /\ clients[c].sessionId = s
            /\ h \in DOMAIN clients
            /\ readyState[h] = "OPEN")
           => sent = <<[to |-> h,
                        msg |-> [t |-> "answer", s |-> s, d |-> last.m.d,
                                 viewerId |-> clients[c].viewerId]]>>
        /\ (clients[c].type # "viewer" /\ c # h) => sent = <<>>

\* The connection is registered and its socket is open.
IsOpen(c) == c \in DOMAIN clients /\ readyState[c] = "OPEN"

RoutingFails ==
  LET c == last'.c
      m == last'.m
  IN \/ /\ last'.op = "offer"
        /\ \/ m.s \notin DOMAIN sessions
           \/ sessions[m.s].hostClientId # c
           \/ m.targetViewerId \notin DOMAIN sessions[m.s].viewers
     \/ /\ last'.op = "ice-candidate"
        /\ clients[c].type = "host"
        /\ clients[c].sessionId \in DOMAIN sessions
        /\ m.targetViewerId
             \notin DOMAIN sessions[clients[c].sessionId].viewers
     \/ /\ last'.op = "answer"
        /\ m.s \notin DOMAIN sessions

\* C22: a frame that cannot be routed is dropped silently: nothing is
\* written to any connection, the sender included, and registry, session
\* table, maps, counters and socket states are unchanged.
C22_RoutingFailureIsSilent ==
  [][RoutingFails
     => /\ sent' = <<>>
        /\ relay' = relay
        /\ readyState' = readyState]_vars

\* The host of a session with a viewer sent an offer naming a viewer id that
\* is not in the viewer map, and nothing was written.
C22_Witness ==
  /\ last.op = "offer"
  /\ last.m.s \in DOMAIN sessions
  /\ sessions[last.m.s].hostClientId = last.c
  /\ sessions[last.m.s].viewers # <<>>
  /\ last.m.targetViewerId \notin DOMAIN sessions[last.m.s].viewers
  /\ sent = <<>>

\* C23: a stats frame from a connection that is not the host of the session
\* it names (a viewer, a connection without a role, or the host of another
\* session) changes the transferred-bytes counter of no session.
C23_StatsOnlyFromHost ==
  [][(/\ last'.op = "stats"
      /\ ~ /\ clients[last'.c].type = "host"
           /\ clients[last'.c].sessionId = last'.m.s
           /\ last'.m.s \in DOMAIN sessions
           /\ sessions[last'.m.s].hostClientId = last'.c)
     => \A s \in DOMAIN sessions :
          sessions'[s].stats.dataTransferred
            = sessions[s].stats.dataTransferred]_vars

\* C24: a ping from a registered connection, whatever its role, writes
\* exactly one {t: "pong"} frame, to the sender, and changes neither
\* registry, session table, maps, counters nor socket states.
C24_PingAnsweredWithPong ==
  [][last'.op = "ping"
     => /\ sent' = <<[to |-> last'.c, msg |-> [t |-> "pong"]]>>
        /\ relay' = relay
        /\ readyState' = readyState]_vars

\* A viewer of a live session pinged and got the pong.
C24_Witness ==
  /\ last.op = "ping"
  /\ clients[last.c].type = "viewer"
  /\ clients[last.c].sessionId \in DOMAIN sessions
  /\ sent = <<[to |-> last.c, msg |-> [t |-> "pong"]]>>

\* C25: a well-formed frame of an unrecognized type writes nothing to any
\* connection and changes neither registry, session table, maps, counters
\* nor socket states.
C25_UnknownTypeIgnored ==
  [][last'.op = "unknown"
     => /\ sent' = <<>>
        /\ relay' = relay
        /\ readyState' = readyState]_vars

\* The host of a live session sent a frame of an unrecognized type and
\* nothing was written.
C25_Witness ==
  /\ last.op = "unknown"
  /\ clients[last.c].type = "host"
  /\ clients[last.c].sessionId \in DOMAIN sessions
  /\ sent = <<>>

\* C26: at every health check each registered open connection whose last
\* pong is older than PongTimeout is terminated and every other registered
\* open connection is sent a probe; and the close event of a terminated
\* connection cleans up as an ordinary close does, whatever health checks
\* ran in between: a host's session (a connection that sent host-ready for
\* that session only and never joined as a viewer) is removed and its open
\* viewers are sent host-disconnected, a viewer's entry is removed from the
\* viewer map.
C26_TerminationCleansUp ==
  [][/\ last'.op = "health-check"
        => \A c \in DOMAIN clients :
             readyState[c] = "OPEN"
             => IF now' - clients[c].lastPong > PongTimeout
                THEN /\ readyState'[c] = "CLOSING"
                     /\ c \notin {sent'[i].to : i \in DOMAIN sent'}
                ELSE /\ readyState'[c] = "OPEN"
                     /\ \E i \in DOMAIN sent' :
                          sent'[i] = [to |-> c, msg |-> [t |-> "ws-ping"]]
     /\ \A s \in DOMAIN sessions :
          (/\ last'.op = "close"
           /\ last'.c = sessions[s].hostClientId
           /\ \A t \in SessionIds : <<last'.c, t>> \in hostReadySent => t = s
           /\ last'.c \notin DOMAIN clientToViewerId)
          => /\ s \notin DOMAIN sessions'
             /\ \A w \in ViewerRefs(sessions[s]) :
                  (w \in DOMAIN clients /\ readyState[w] = "OPEN")
                  => \E i \in DOMAIN sent' :
                       sent'[i].to = w
                       /\ sent'[i].msg.t = "host-disconnected"
     /\ \A s \in DOMAIN sessions : \A v \in DOMAIN sessions[s].viewers :
          (/\ last'.op = "close"
           /\ last'.c = sessions[s].viewers[v]
           /\ last'.c # sessions[s].hostClientId
           /\ s \in DOMAIN sessions')
          => v \notin DOMAIN sessions'[s].viewers]_vars

\* No registry entry, host slot or viewer-map entry refers to connection c.
Destroyed(c) ==
  /\ c \notin DOMAIN clients
  /\ \A s \in DOMAIN sessions :
       /\ sessions[s].hostClientId # c
       /\ c \notin ViewerRefs(sessions[s])

\* C27: a connection that stopped answering probes and was terminated by
\* the health check is destroyed: once its close event has been handled (the
\* last event of that connection, still registered when it is handled) it is
\* absent from the registry, from every host slot and from every viewer map.
C27_TerminatedIsDestroyed ==
  [][\A c \in DOMAIN clients :
       (last'.op = "close" /\ last'.c = c) => Destroyed(c)']_vars

\* C28: disconnect cleanup is best-effort. A close event for a connection
\* that is not in the registry writes nothing and changes no state; a close
\* event for a registered connection whose session is gone, or for a viewer
\* (of a session whose host slot holds its only host) that no entry of its
\* session's viewer map refers to, writes nothing,
\* changes no session, and leaves the connection absent from the registry,
\* clientToSession and clientToViewerId.
C28_CleanupIsBestEffort ==
  [][\A c \in DOMAIN readyState :
       (last'.op = "close" /\ last'.c = c)
       => /\ c \notin DOMAIN clients
             => (relay' = relay /\ sent' = <<>>)
          /\ (/\ c \in DOMAIN clients
              /\ \/ /\ clients[c].sessionId # NoSession
                    /\ clients[c].sessionId \notin DOMAIN sessions
                 \/ /\ clients[c].type = "viewer"
                    /\ clients[c].sessionId \in DOMAIN sessions
                    /\ c \notin ViewerRefs(sessions[clients[c].sessionId])
                    /\ HostsOf(clients[c].sessionId)
                         = {sessions[clients[c].sessionId].hostClientId})
             => /\ sent' = <<>>
                /\ sessions' = sessions
                /\ c \notin DOMAIN clients'
                /\ c \notin DOMAIN clientToSession'
                /\ c \notin DOMAIN clientToViewerId']_vars

\* C29: handlers are atomic steps, so a viewer-join that races the close of
\* the session's host either precedes it or follows it: a join that succeeds
\* finds the connection in the session's host slot still registered (and
\* that close will later notify the viewer), one that comes after is
\* answered with the error; a join never adds a viewer entry to a session
\* whose host is gone from the registry.
C29_JoinNeverLandsHostless ==
  [][JoinSucceeds
     => sessions[last'.m.s].hostClientId \in DOMAIN clients]_vars

\* C30: the frames of one connection are handled and forwarded in arrival
\* order. What one connection's frames wrote to one recipient lies on that
\* recipient's socket in the order in which the frames arrived, each write
\* stemming from the frame of its arrival; and a frame is handled in the
\* state its predecessor left: an answer that arrives right after the
\* sender's acknowledged viewer-join is forwarded with the viewer id of that
\* join.
Processed(c, k) == k < inbox[c].next

C30_ArrivalOrderKept ==
  /\ \A r \in 1..MaxConns : \A i, j \in DOMAIN wire[r] :
       (i < j /\ wire[r][i].by = wire[r][j].by)
         => wire[r][i].arrival <= wire[r][j].arrival
  /\ \A r \in 1..MaxConns : \A i \in DOMAIN wire[r] :
       LET w == wire[r][i]
       IN /\ Processed(w.by, w.arrival)
          /\ w.msg.t = "answer"
               => /\ inbox[w.by].frames[w.arrival].t = "answer"
                  /\ inbox[w.by].frames[w.arrival].d = w.msg.d
  /\ \A c \in 1..MaxConns : \A k \in DOMAIN inbox[c].frames :
       ( /\ Processed(c, k + 1)
         /\ inbox[c].frames[k].t = "viewer-join"
         /\ inbox[c].frames[k + 1].t = "answer"
         /\ \E i \in DOMAIN wire[c] :
              /\ wire[c][i].by = c
              /\ wire[c][i].arrival = k
              /\ wire[c][i].msg.t = "viewer-joined-ack" )
         => \E r \in 1..MaxConns : \E j \in DOMAIN wire[r] :
              /\ wire[r][j].by = c
              /\ wire[r][j].arrival = k + 1
              /\ wire[r][j].msg.t = "answer"
              /\ wire[r][j].msg.d = inbox[c].frames[k + 1].d
              /\ wire[r][j].msg.viewerId = inbox[c].frames[k].uid

\* A viewer's join and its two answers have reached the host's socket, in the
\* order in which the viewer sent them.
C30_Witness ==
  \E r, c \in 1..MaxConns : \E i, j, l \in DOMAIN wire[r] :
    /\ r # c
    /\ i < j /\ j < l
    /\ wire[r][i].by = c /\ wire[r][j].by = c /\ wire[r][l].by = c
    /\ wire[r][i].msg.t = "viewer-joined"
    /\ wire[r][j].msg.t = "answer"
    /\ wire[r][l].msg.t = "answer"
    /\ wire[r][j].arrival < wire[r][l].arrival
    /\ wire[r][j].msg.d # wire[r][l].msg.d

\* C31: on a termination signal every live connection is closed with the
\* normal-closure code: the signal handler writes a close frame with code
\* 1000 to every registered connection whose socket is open, and that socket
\* starts closing.
C31_SignalClosesLive ==
  [][last'.op \in {"SIGINT", "SIGTERM"}
       => \A c \in DOMAIN clients :
            readyState[c] = "OPEN"
              => /\ \E i \in DOMAIN sent' :
                      sent'[i] = [to |-> c,
                                  msg |-> [t |-> "ws-close",
                                           code |-> NormalClosure]]
                 /\ readyState'[c] = "CLOSING"]_vars

\* C32: the total-connections counter goes up by exactly one on every
\* accepted connection and is left alone by every other event; it equals the
\* number of connections accepted so far and is at least the size of the
\* registry.
C32_TotalCountsAccepted ==
  [][/\ stats'.totalConnections =
          stats.totalConnections + (IF last'.op = "connection" THEN 1 ELSE 0)
     /\ stats'.totalConnections = nextId' - 1
     /\ stats'.totalConnections >= Cardinality(DOMAIN clients')]_vars

\* Two connections were accepted, one has left the registry, and a frame
\* was handled after that.
C32_Witness ==
  /\ stats.totalConnections = 2
  /\ Cardinality(DOMAIN clients) = 1
  /\ last.op \in {"stats", "ping", "offer", "host-ready"}

\* C33: session isolation. An offer, answer, ice-candidate or cursor frame
\* sent by a connection that belongs to a session is forwarded only to
\* connections that belong to the same session, whatever session id the frame
\* carries (stated for the states in which roles and session table agree).
\* Every registered connection holds at most one role, and the session table
\* agrees with it.
RolesAgree ==
  \A c \in DOMAIN clients :
    /\ \A s \in DOMAIN sessions :
         /\ sessions[s].hostClientId = c
              <=> (clients[c].type = "host" /\ clients[c].sessionId = s)
         /\ (\E v \in DOMAIN sessions[s].viewers : sessions[s].viewers[v] = c)
              <=> (clients[c].type = "viewer" /\ clients[c].sessionId = s)
    /\ clients[c].sessionId # NoSession => clients[c].sessionId \in DOMAIN sessions

C33_ForwardsStayInSession ==
  ( /\ last.op \in {"offer", "answer", "ice-candidate", "cursor"}
    /\ last.c \in DOMAIN clients
    /\ clients[last.c].sessionId # NoSession
    /\ RolesAgree )
    => \A i \in DOMAIN sent :
         sent[i].msg.t = last.op
           => /\ sent[i].to \in DOMAIN clients
              /\ clients[sent[i].to].sessionId = clients[last.c].sessionId

\* C34: a viewer entry (V -> c) of a session, whose host slot holds its only
\* host, leaves the viewer map of the session, while the session stays, only
\* by the close of connection c itself; and a close writes
\* viewer-count-changed only when an entry of the closing connection was in
\* the map.
C34_EntryLeavesWithItsOwner ==
  [][\A s \in DOMAIN sessions \cap DOMAIN sessions' :
       HostsOf(s) = {sessions[s].hostClientId}
       => /\ \A v \in DOMAIN sessions[s].viewers :
               v \notin DOMAIN sessions'[s].viewers
                 => (last'.op = "close" /\ last'.c = sessions[s].viewers[v])
          /\ (/\ last'.op = "close"
              /\ \E i \in DOMAIN sent' :
                   /\ sent'[i].msg.t = "viewer-count-changed"
                   /\ sent'[i].msg.s = s)
             => last'.c \in ViewerRefs(sessions[s])]_vars

\* C35: a connection that acknowledges every probe is never terminated and
\* never dropped by the heartbeat: at every health check, a registered
\* connection with an open socket whose last pong (or whose acceptance) came
\* after the previous health check is still registered afterwards, its socket
\* still open, and it is sent the next probe.
C35_ResponsiveSurvivesTick ==
  [][last'.op = "health-check"
       => \A c \in DOMAIN clients :
            (readyState[c] = "OPEN" /\ clients[c].lastPong = now)
              => /\ c \in DOMAIN clients'
                 /\ readyState'[c] = "OPEN"
                 /\ \E i \in DOMAIN sent' :
                      sent'[i] = [to |-> c, msg |-> [t |-> "ws-ping"]]]_vars

\* After the fourth health check the first connection, which answered the
\* probe of the third, is still registered and open, while a connection that
\* stayed silent for more than PongTimeout has been terminated.
C35_Witness ==
  /\ last.op = "health-check"
  /\ now = 4 * PingInterval
  /\ 1 \in DOMAIN clients
  /\ readyState[1] = "OPEN"
  /\ clients[1].lastPong = now - PingInterval
  /\ \E c \in DOMAIN clients :
       /\ readyState[c] = "CLOSING"
       /\ now - clients[c].lastPong > PongTimeout

\* C36: the activeSessions statistic equals the number of entries of the
\* session table in every reachable state.
C36_ActiveSessionsIsTableSize ==
  stats.activeSessions = Cardinality(DOMAIN sessions)

\* A session was re-registered and then ended by the close of its first
\* host: the table is empty, the count is zero, and the second host is still
\* registered as host of the session that is gone.
C36_Witness ==
  /\ last.op = "close"
  /\ sessions = <<>>
  /\ stats.activeSessions = 0
  /\ \E c \in DOMAIN clients :
       clients[c].type = "host" /\ clients[c].sessionId # NoSession

\* C37: for every session in the table, the size of its viewer map is at
\* most peakViewers and peakViewers is at most totalViewers; while the
\* session stays in the table neither counter decreases.
C37_ViewerCountersOrdered ==
  [][\A s \in DOMAIN sessions' :
       /\ Cardinality(DOMAIN sessions'[s].viewers)
            <= sessions'[s].stats.peakViewers
       /\ sessions'[s].stats.peakViewers <= sessions'[s].stats.totalViewers
       /\ s \in DOMAIN sessions
            => /\ sessions'[s].stats.peakViewers
                    >= sessions[s].stats.peakViewers
               /\ sessions'[s].stats.totalViewers
                    >= sessions[s].stats.totalViewers]_vars

\* A viewer has left a session that two joins with one uid had reached: the
\* viewer map is smaller than the peak and the peak smaller than the total.
C37_Witness ==
  /\ last.op = "close"
  /\ \E s \in DOMAIN sessions :
       /\ Cardinality(DOMAIN sessions[s].viewers)
            < sessions[s].stats.peakViewers
       /\ sessions[s].stats.peakViewers < sessions[s].stats.totalViewers

\* C38: after the application has called close() the SignalingClient
\* schedules no reconnect and creates no new socket.
C38_NoSocketAfterClose ==
  [][signaling.closeCalled
       => /\ signaling'.sockets = signaling.sockets
          /\ signaling'.timers <= signaling.timers]_vars

\* C39: reconnectAttempts stays within 0..5 and counts the closes since the
\* last open up to 5; once 5 closes have followed one another without an
\* open no further reconnect is scheduled, so at most 6 closes follow one
\* another and no timer is left after the sixth; an open sets the counter
\* to 0.
C39_ReconnectIsCapped ==
  [][/\ signaling'.reconnectAttempts \in 0..MaxReconnectAttempts
     /\ signaling'.reconnectAttempts
          = (IF signaling'.closes <= MaxReconnectAttempts
             THEN signaling'.closes ELSE MaxReconnectAttempts)
     /\ signaling.closes >= MaxReconnectAttempts
          => signaling'.timers <= signaling.timers
     /\ signaling'.closes <= MaxReconnectAttempts + 1
     /\ signaling'.closes > MaxReconnectAttempts => signaling'.timers = 0
     /\ (signaling.socket = "CONNECTING" /\ signaling'.socket = "OPEN")
          => signaling'.reconnectAttempts = 0]_vars

\* The client has given up: six sockets have closed one after the other and
\* no reconnect is pending.
C39_Witness ==
  /\ signaling.closes = MaxReconnectAttempts + 1
  /\ signaling.reconnectAttempts = MaxReconnectAttempts
  /\ signaling.socket = "CLOSED"
  /\ signaling.timers = 0
  /\ ~signaling.closeCalled

====
